---- MODULE Spec2Model ----
(***************************************************************************)
(* A model of the mplex session engine of multiplex.go: the receive loop   *)
(* (handleIncoming), the send loop (handleOutgoing), the buffer-slot       *)
(* semaphores bufIn / bufOut, the stream map, and the session API          *)
(* (NewNamedStream, Accept, Close, sendResetMsg).                          *)
(*                                                                         *)
(* Go channels are modelled by what they hold: a buffered channel of data  *)
(* is a sequence, a semaphore channel (bufIn, bufOut) is the number of     *)
(* tokens in it, a channel that is only ever closed (shutdown, closed,     *)
(* readCancel, writeCancel) is a flag.  A select statement is one action   *)
(* with one disjunct per case; every case that is ready may be taken.      *)
(* A section of code under a mutex is one atomic step.                     *)
(***************************************************************************)
EXTENDS Integers, Sequences, FiniteSets, TLC

(* ---------------- program constants ---------------- *)

MaxMessageSize == 1048576

MaxBuffers == 4

WriteChCap == 16

NStreamsCap == 16

newStreamTag == 0

messageTag == 2

closeTag == 4

resetTag == 6

(* ---------------- bounds of the model ---------------- *)

\* the memory manager grants at most this many of the MaxBuffers reservations
MaxGrant == 2

\* frames the peer puts on the wire
MaxFrames == 3

\* largest stream id the peer uses in a header.  The receive loop only
\* compares the peer's ids, so they are numbered in the order the peer first
\* uses them: 0, then 1, ...
MaxChID == 0

\* calls of NewNamedStream, Close, Stream.Write and sendResetMsg ever made,
\* each in a goroutine of its own; they are numbered in the order they start
MaxOps == 2

Callers == 1..MaxOps

\* payload lengths the peer declares in a frame
PayloadLens == {0, MaxMessageSize, MaxMessageSize + 1}

Min(a, b) == IF a < b THEN a ELSE b

VARIABLES
    bufMax,         \* mp.bufMax: slots granted at construction
    reservedMemory, \* mp.reservedMemory
    shutdown,       \* mp.shutdown is closed
    closed,         \* mp.closed is closed
    shutdownErr,    \* mp.shutdownErr ("nil" when unset)
    conClosed,      \* the transport has been closed
    writeCh,        \* mp.writeCh: outbound frames, in queue order
    nstreams,       \* mp.nstreams: streams published for Accept
    channels,       \* mp.channels: the Stream objects in the map
    channelsNil,    \* mp.channels == nil
    nextID,         \* mp.nextID
    bufIn, bufOut,  \* tokens in the two semaphore channels
    streams,        \* the Stream objects created so far
    rx,             \* the receive loop: position and locals
    tx,             \* the send loop: position and locals
    callers,        \* user goroutines: position and locals
    pendingResets,  \* streams whose Reset has still to send its Reset frame
    held,           \* streams the user has got from NewNamedStream or Accept
    lastAccept,     \* what the last Accept call returned, and whether
                    \* mp.closed was closed when it was called
    hist            \* history: what has been observed so far

vars == <<bufMax, reservedMemory, shutdown, closed, shutdownErr, conClosed,
          writeCh, nstreams, channels, channelsNil, nextID, bufIn, bufOut,
          streams, rx, tx, callers, pendingResets, held, lastAccept,
          hist>>

session == <<bufMax, reservedMemory>>

(* ---------------- buffers and streams ---------------- *)

\* a payload buffer read from the wire: the number of the frame it came with
\* and its length; readNext returns the nil slice for length 0
Buf(seq, len) == [seq |-> seq, len |-> len]

NilBuf == Buf(0, 0)

IsNil(b) == b.len = 0

\* streamID{id, initiator}
StreamID(id, initiator) == [id |-> id, initiator |-> initiator]

\* newStream: a fresh Stream, dataIn of capacity bufMax, nothing cancelled
newStream(id) ==
    [id |-> id, dataIn |-> <<>>, dataInClosed |-> FALSE,
     readCancel |-> "none", writeCancel |-> "none", resetDone |-> FALSE]

\* mp.channels[ch]: the Stream object registered under key ch, 0 when none
Lookup(ch) ==
    IF \E s \in channels : streams[s].id = ch
    THEN CHOOSE s \in channels : streams[s].id = ch
    ELSE 0

\* the header NewNamedStream builds: (sid << 3) | newStreamTag
NewStreamHeader(sid) == sid * 8 + newStreamTag

\* the header of a frame a stream sends about itself: (id << 3) | tag, the
\* tag one lower (odd) when this side did not open the stream
StreamHeader(id, tag) == id.id * 8 + (IF id.initiator THEN tag ELSE tag - 1)

(* ---------------- initial state: NewMultiplex ---------------- *)

Idle == [pc |-> "idle", op |-> "none", hard |-> FALSE, s |-> 0, header |-> 0,
         res |-> "none"]

\* a call that has returned res: only the call, its stream and its result
\* are remembered
Returned(c, res) ==
    [Idle EXCEPT !.pc = "done", !.op = c.op, !.res = res,
                 !.s = IF c.op = "newstream" THEN c.s ELSE 0]

\* the receive loop at the top of its for loop: the locals of the last turn
\* are dead
RxStart == [pc |-> "read", ch |-> StreamID(0, FALSE), tag |-> 0, l |-> 0,
            b |-> NilBuf, msch |-> 0, taken |-> {}]

TxStart == [pc |-> "select", data |-> [n |-> 0, header |-> 0]]

Init ==
    /\ bufMax \in 1..Min(MaxBuffers, MaxGrant)
    /\ reservedMemory = bufMax * 2 * MaxMessageSize
    /\ shutdown = FALSE
    /\ closed = FALSE
    /\ shutdownErr = "nil"
    /\ conClosed = FALSE
    /\ writeCh = <<>>
    /\ nstreams = <<>>
    /\ channels = {}
    /\ channelsNil = FALSE
    /\ nextID = 0
    /\ bufIn = 0
    /\ bufOut = 0
    /\ streams = <<>>
    /\ rx = RxStart
    /\ tx = TxStart
    /\ callers = [p \in Callers |-> Idle]
    /\ pendingResets = {}
    /\ held = {}
    /\ lastAccept = [kind |-> "none", s |-> 0, err |-> "nil", closed |-> FALSE]
    /\ hist = [frames |-> 0,        \* frames read from the wire
               peerIds |-> 0,       \* distinct stream ids the peer has used
               ops |-> 0,           \* user calls started
               enq |-> 0,           \* frames enqueued on writeCh
               written |-> <<>>,    \* enqueue numbers written to the transport
               ids |-> <<>>,        \* ids handed out by nextChanID, in order
               releases |-> <<>>,   \* sizes passed to ReleaseMemory
               conCloses |-> 0,     \* calls of con.Close
               shutdowns |-> 0,     \* close(mp.shutdown) executed
               closes |-> 0,        \* close(mp.closed) executed
               cleaned |-> {},      \* the streams cleanup took from the map
               reads |-> <<>>,      \* per stream: frame numbers the user consumed
               published |-> <<>>,  \* streams sent into nstreams, in order
               accepted |-> <<>>,   \* streams Accept has returned, in order
               timedOut |-> {}]     \* streams reset by the receive timeout

(* ---------------- closeNoWait ---------------- *)

\* closeNoWait without the check of mp.shutdown: every call releases and closes
closeNoWaitUnchecked(h) ==
    /\ shutdown' = TRUE
    /\ conClosed' = TRUE
    /\ hist' = [h EXCEPT !.releases = Append(@, reservedMemory),
                         !.conCloses = @ + 1,
                         !.shutdowns = @ + 1]

\* closeNoWait, under shutdownLock: the first call releases the reserved
\* memory, closes the transport and closes mp.shutdown; later calls do
\* nothing.  h is the history as the calling step leaves it.
closeNoWait(h) ==
    /\ shutdown' = TRUE
    /\ conClosed' = TRUE
    /\ hist' = IF shutdown
               THEN h
               ELSE [h EXCEPT !.releases = Append(@, reservedMemory),
                              !.conCloses = @ + 1,
                              !.shutdowns = @ + 1]

(* ---------------- the send loop: handleOutgoing ---------------- *)

\* a send loop that takes the newest buffer instead of the oldest
DequeueNewest(q) == [data |-> q[Len(q)], rest |-> SubSeq(q, 1, Len(q) - 1)]

\* the buffer the send loop takes from writeCh, and what stays queued
Dequeue(q) == [data |-> Head(q), rest |-> Tail(q)]

\* select { case <-mp.shutdown: return; case data := <-mp.writeCh: ... }
TxSelect ==
    /\ tx.pc = "select"
    /\ \/ /\ shutdown
          /\ tx' = [TxStart EXCEPT !.pc = "done"]
          /\ UNCHANGED writeCh
       \/ /\ writeCh # <<>>
          /\ tx' = [pc |-> "write", data |-> Dequeue(writeCh).data]
          /\ writeCh' = Dequeue(writeCh).rest
    /\ UNCHANGED <<session, shutdown, closed, shutdownErr, conClosed, nstreams,
                   channels, channelsNil, nextID, bufIn, bufOut, streams, rx,
                   callers, pendingResets, held, lastAccept, hist>>

\* doWriteMsg(data), then putBufferOutbound(data), then return on error.
\* doWriteMsg writes nothing once shutdown is raised; a transport write can
\* fail at any time, and a failed write calls closeNoWait.
TxWrite ==
    /\ tx.pc = "write"
    /\ bufOut > 0
    /\ bufOut' = bufOut - 1
    /\ \/ /\ shutdown
          /\ tx' = [TxStart EXCEPT !.pc = "done"]
          /\ UNCHANGED <<shutdown, conClosed, hist>>
       \/ /\ ~shutdown
          /\ tx' = TxStart
          /\ hist' = [hist EXCEPT !.written = Append(@, tx.data.n)]
          /\ UNCHANGED <<shutdown, conClosed>>
       \/ /\ ~shutdown
          /\ tx' = [TxStart EXCEPT !.pc = "done"]
          /\ closeNoWait(hist)
    /\ UNCHANGED <<session, closed, shutdownErr, writeCh, nstreams, channels,
                   channelsNil, nextID, bufIn, streams, rx, callers,
                   pendingResets, held, lastAccept>>

(* ---------------- sendMsg and its callers ---------------- *)

\* what the caller of sendMsg does with a failed send.  NewNamedStream
\* returns the error (ctx.Err() for a timeout); sendResetMsg calls Close when
\* the reset is hard and the session is not shut down; a stream write returns
\* the error.
SendFailed(p, err) ==
    LET c == callers[p]
        kill == c.op = "reset" /\ c.hard /\ ~shutdown
        res == IF c.op = "newstream" /\ err = "errTimeout" THEN "ctxErr" ELSE err
    IN /\ callers' = [callers EXCEPT ![p] =
                        IF kill THEN [Idle EXCEPT !.pc = "closeWait", !.op = "close"]
                        ELSE Returned(c, res)]
       /\ IF kill THEN closeNoWait(hist)
                  ELSE UNCHANGED <<shutdown, conClosed, hist>>

\* getBufferOutbound: select on a free outbound slot, the timeout, the
\* cancel channel (a stream write passes the stream's writeCancel) and
\* shutdown
SendAcquire(p) ==
    LET c == callers[p] IN
    /\ c.pc = "acquire"
    /\ \/ /\ bufOut < bufMax
          /\ bufOut' = bufOut + 1
          /\ callers' = [callers EXCEPT ![p].pc = "enqueue"]
          /\ UNCHANGED <<shutdown, conClosed, hist>>
       \/ /\ SendFailed(p, "errTimeout")
          /\ UNCHANGED bufOut
       \/ /\ c.op = "write"
          /\ streams[c.s].writeCancel # "none"
          /\ SendFailed(p, "ErrStreamClosed")
          /\ UNCHANGED bufOut
       \/ /\ shutdown
          /\ SendFailed(p, "ErrShutdown")
          /\ UNCHANGED bufOut
    /\ UNCHANGED <<session, closed, shutdownErr, writeCh, nstreams, channels,
                   channelsNil, nextID, bufIn, streams, rx, tx, pendingResets, held,
                   lastAccept>>

\* the queue after sendMsg has sent buffer f into writeCh
Enqueue(q, f) == Append(q, f)

\* an error path of sendMsg that forgets putBufferOutbound
SendAbortKeepsSlot(n) == n

\* putBufferOutbound in sendMsg's error paths: the slot count afterwards
SendAbortSlots(n) == n - 1

\* the second select of sendMsg: the filled buffer goes into writeCh, or the
\* slot is given back and the error returned
SendEnqueue(p) ==
    LET c == callers[p] IN
    /\ c.pc = "enqueue"
    /\ \/ /\ Len(writeCh) < WriteChCap
          /\ writeCh' = Enqueue(writeCh, [n |-> hist.enq + 1, header |-> c.header])
          /\ hist' = [hist EXCEPT !.enq = @ + 1]
          /\ callers' = [callers EXCEPT ![p] =
                           Returned(c, "ok")]
          /\ held' = IF c.op = "newstream" THEN held \cup {c.s} ELSE held
          /\ UNCHANGED <<bufOut, shutdown, conClosed>>
       \/ /\ shutdown
          /\ bufOut > 0
          /\ bufOut' = SendAbortSlots(bufOut)
          /\ SendFailed(p, "ErrShutdown")
          /\ UNCHANGED <<writeCh, held>>
       \/ /\ bufOut > 0
          /\ bufOut' = SendAbortSlots(bufOut)
          /\ SendFailed(p, "errTimeout")
          /\ UNCHANGED <<writeCh, held>>
       \/ /\ c.op = "write"
          /\ streams[c.s].writeCancel # "none"
          /\ bufOut > 0
          /\ bufOut' = SendAbortSlots(bufOut)
          /\ SendFailed(p, "ErrStreamClosed")
          /\ UNCHANGED <<writeCh, held>>
    /\ UNCHANGED <<session, closed, shutdownErr, nstreams, channels,
                   channelsNil, nextID, bufIn, streams, rx, tx, pendingResets,
                   lastAccept>>

\* nextChanID without the increment
nextChanIDSame == [out |-> nextID, next |-> nextID]

\* nextChanID: the id handed out and the counter afterwards (a uint64; the
\* bounds keep it far from wrapping)
nextChanID == [out |-> nextID, next |-> nextID + 1]

\* mp.channels[id] = s: s replaces whatever was registered under the key
Register(chs, strs, s) == {t \in chs : strs[t].id # strs[s].id} \cup {s}

\* NewNamedStream up to the call of sendMsg, under chLock
CallNewNamedStream(p) ==
    /\ callers[p].pc = "idle"
    /\ hist.ops = p - 1
    /\ IF channelsNil
       THEN /\ callers' = [callers EXCEPT ![p] =
                             Returned([Idle EXCEPT !.op = "newstream"], "ErrShutdown")]
            /\ hist' = [hist EXCEPT !.ops = @ + 1]
            /\ UNCHANGED <<nextID, streams, channels>>
       ELSE LET sid == nextChanID.out
                s == Len(streams) + 1
                strs == Append(streams, newStream(StreamID(sid, TRUE)))
            IN /\ nextID' = nextChanID.next
               /\ streams' = strs
               /\ channels' = Register(channels, strs, s)
               /\ callers' = [callers EXCEPT ![p] =
                                [pc |-> "acquire", op |-> "newstream",
                                 hard |-> FALSE, s |-> s,
                                 header |-> NewStreamHeader(sid), res |-> "none"]]
               /\ hist' = [hist EXCEPT !.ops = @ + 1,
                                       !.ids = Append(@, sid),
                                       !.reads = Append(@, <<>>)]
    /\ UNCHANGED <<session, shutdown, closed, shutdownErr, conClosed, writeCh,
                   nstreams, channelsNil, bufIn, bufOut, rx, tx, pendingResets, held,
                   lastAccept>>

\* Close: closeNoWait, then wait for mp.closed
CallClose(p) ==
    /\ callers[p].pc = "idle"
    /\ hist.ops = p - 1
    /\ callers' = [callers EXCEPT ![p] = [Idle EXCEPT !.pc = "closeWait", !.op = "close"]]
    /\ closeNoWait([hist EXCEPT !.ops = @ + 1])
    /\ UNCHANGED <<session, closed, shutdownErr, writeCh, nstreams, channels,
                   channelsNil, nextID, bufIn, bufOut, streams, rx, tx,
                   pendingResets, held, lastAccept>>

\* <-mp.closed in Close
CloseWait(p) ==
    /\ callers[p].pc = "closeWait"
    /\ closed
    /\ callers' = [callers EXCEPT ![p] = Returned(callers[p], "ok")]
    /\ UNCHANGED <<session, shutdown, closed, shutdownErr, conClosed, writeCh,
                   nstreams, channels, channelsNil, nextID, bufIn, bufOut,
                   streams, rx, tx, pendingResets, held, lastAccept, hist>>

\* sendResetMsg(header, hard), run for a stream whose Reset asked for it
CallSendResetMsg(p) ==
    /\ callers[p].pc = "idle"
    /\ hist.ops = p - 1
    /\ hist' = [hist EXCEPT !.ops = @ + 1]
    /\ \E s \in pendingResets, hard \in BOOLEAN :
          /\ pendingResets' = pendingResets \ {s}
          /\ callers' = [callers EXCEPT ![p] =
                           [pc |-> "acquire", op |-> "reset", hard |-> hard,
                            s |-> s,
                            header |-> StreamHeader(streams[s].id, resetTag),
                            res |-> "none"]]
    /\ UNCHANGED <<session, shutdown, closed, shutdownErr, conClosed, writeCh,
                   nstreams, channels, channelsNil, nextID, bufIn, bufOut,
                   streams, rx, tx, held, lastAccept>>

\* Accept: select on mp.nstreams and mp.closed
Accept ==
    /\ \/ /\ nstreams # <<>>
          /\ lastAccept' = [kind |-> "stream", s |-> Head(nstreams), err |-> "nil",
                            closed |-> closed]
          /\ nstreams' = Tail(nstreams)
          /\ held' = held \cup {Head(nstreams)}
          /\ hist' = [hist EXCEPT !.accepted = Append(@, Head(nstreams))]
       \/ /\ closed
          /\ lastAccept' = [kind |-> "error", s |-> 0, err |-> shutdownErr,
                            closed |-> TRUE]
          /\ UNCHANGED <<nstreams, held, hist>>
    /\ UNCHANGED <<session, shutdown, closed, shutdownErr, conClosed, writeCh,
                   channels, channelsNil, nextID, bufIn, bufOut, streams, rx,
                   tx, callers, pendingResets>>

(* ---------------- Stream operations the session relies on ---------------- *)

\* cancelRead(err): raise readCancel with err unless it is raised already
cancelRead(strs, s, err) ==
    [strs EXCEPT ![s].readCancel = IF @ = "none" THEN err ELSE @]

\* cancelWrite(err): raise writeCancel with err unless it is raised already
cancelWrite(strs, s, err) ==
    [strs EXCEPT ![s].writeCancel = IF @ = "none" THEN err ELSE @]

\* cancelRead also unregisters the stream from the session map (a nil map
\* stays nil)
Unregister(chs, s) == chs \ {s}

\* Stream.Reset(): the first call cancels reads and writes with
\* ErrStreamReset, unregisters the stream and starts sendResetMsg in the
\* background; later calls do nothing
ResetStreams(strs, s) ==
    IF strs[s].resetDone
    THEN strs
    ELSE [cancelWrite(cancelRead(strs, s, "ErrStreamReset"), s, "ErrStreamReset")
            EXCEPT ![s].resetDone = TRUE]

ResetPending(pend, strs, s) == IF strs[s].resetDone THEN pend ELSE pend \cup {s}

\* the user calls Reset on a stream it holds
UserReset(s) ==
    /\ s \in held
    /\ ~streams[s].resetDone
    /\ streams' = ResetStreams(streams, s)
    /\ channels' = Unregister(channels, s)
    /\ pendingResets' = ResetPending(pendingResets, streams, s)
    /\ UNCHANGED <<hist, session, shutdown, closed, shutdownErr, conClosed, writeCh,
                   nstreams, channelsNil, nextID, bufIn, bufOut, rx, tx,
                   callers, held, lastAccept>>

\* the user reads the next chunk of a stream it holds: the head of dataIn is
\* consumed and, unless it is the nil slice, handed to putBufferInbound
StreamRead(s) ==
    /\ s \in held
    /\ streams[s].dataIn # <<>>
    /\ LET b == Head(streams[s].dataIn) IN
          /\ IF IsNil(b) THEN UNCHANGED bufIn
                         ELSE bufIn > 0 /\ bufIn' = bufIn - 1
          /\ hist' = [hist EXCEPT !.reads[s] = Append(@, b.seq)]
    /\ streams' = [streams EXCEPT ![s].dataIn = Tail(@)]
    /\ UNCHANGED <<session, shutdown, closed, shutdownErr, conClosed, writeCh,
                   nstreams, channels, channelsNil, nextID, bufOut, rx, tx,
                   callers, pendingResets, held, lastAccept>>

\* the user writes one chunk to a stream it holds: sendMsg with the stream's
\* write deadline as timeout and its writeCancel as cancel
CallWrite(p, s) ==
    /\ callers[p].pc = "idle"
    /\ hist.ops = p - 1
    /\ s \in held
    /\ streams[s].writeCancel = "none"
    /\ callers' = [callers EXCEPT ![p] =
                     [pc |-> "acquire", op |-> "write", hard |-> FALSE, s |-> s,
                      header |-> StreamHeader(streams[s].id, messageTag),
                      res |-> "none"]]
    /\ hist' = [hist EXCEPT !.ops = @ + 1]
    /\ UNCHANGED <<session, shutdown, closed, shutdownErr, conClosed, writeCh,
                   nstreams, channels, channelsNil, nextID, bufIn, bufOut,
                   streams, rx, tx, pendingResets, held, lastAccept>>

(* ---------------- the receive loop: handleIncoming ---------------- *)

\* a size check that is off by one
TooLargeFromMax(l) == l >= MaxMessageSize

\* readNext's size check
TooLarge(l) == l > MaxMessageSize

\* the receive loop returns with err: shutdownErr is set and cleanup runs
RxExit(err) ==
    /\ shutdownErr' = err
    /\ rx' = [RxStart EXCEPT !.pc = "cleanup"]

\* readNextHeader and the length part of readNext.  The transport read can
\* fail (EOF, closed connection); otherwise the peer's next frame carries any
\* stream id, tag and declared length.  The tag's low bit gives the initiator
\* side of the key, and the tag is rounded up to the even tag.
RxReadFrame ==
    /\ rx.pc = "read"
    /\ hist.frames < MaxFrames
    /\ \E id \in 0..Min(MaxChID, hist.peerIds), tag \in 0..7, l \in PayloadLens :
          LET remoteIsInitiator == tag % 2 = 0
              ch == StreamID(id, ~remoteIsInitiator)
              seq == hist.frames + 1
          IN /\ hist' = [hist EXCEPT !.frames = seq,
                                     !.peerIds = IF id = @ THEN @ + 1 ELSE @]
             /\ IF TooLarge(l)
                THEN /\ shutdownErr' = "message size too large"
                     /\ rx' = [RxStart EXCEPT !.pc = "cleanup", !.l = l]
                ELSE /\ rx' = [rx EXCEPT
                                 !.pc = IF l = 0 THEN "switch" ELSE "getBuf",
                                 !.ch = ch,
                                 !.tag = tag + (tag % 2),
                                 !.l = l,
                                 !.b = Buf(seq, l)]
                     /\ UNCHANGED shutdownErr
    /\ UNCHANGED <<session, shutdown, closed, conClosed, writeCh, nstreams,
                   channels, channelsNil, nextID, bufIn, bufOut, streams, tx,
                   callers, pendingResets, held, lastAccept>>

\* readNextHeader or readNext fails on the transport: EOF, or the
\* connection has been closed
RxReadErr ==
    /\ rx.pc = "read"
    /\ RxExit("EOF")
    /\ UNCHANGED <<session, shutdown, closed, conClosed, writeCh, nstreams,
                   channels, channelsNil, nextID, bufIn, bufOut, streams, tx,
                   callers, pendingResets, held, lastAccept, hist>>

\* getBufferInbound, then io.ReadFull: wait for a free inbound slot or for
\* shutdown; with the slot taken the payload read succeeds or fails
RxGetBufferInbound ==
    /\ rx.pc = "getBuf"
    /\ \/ /\ bufIn < bufMax
          /\ bufIn' = bufIn + 1
          /\ \/ /\ rx' = [rx EXCEPT !.pc = "switch"]
                /\ UNCHANGED shutdownErr
             \/ RxExit("EOF")
       \/ /\ shutdown
          /\ RxExit("ErrShutdown")
          /\ UNCHANGED bufIn
    /\ UNCHANGED <<session, shutdown, closed, conClosed, writeCh, nstreams,
                   channels, channelsNil, nextID, bufOut, streams, tx, callers,
                   pendingResets, held, lastAccept, hist>>

\* where the switch on the tag goes without touching any state: a put of
\* the buffer, the hand-over to the stream, or the next frame
SwitchTarget(tag, ok) ==
    CASE tag = newStreamTag /\ ~ok -> "putNew"
      [] tag = messageTag /\ ~ok   -> "putDrop"
      [] tag = messageTag /\ ok    -> "deliver"
      [] OTHER                     -> "read"

\* a Close frame that leaves the stream registered
DeleteKeyNone(chs, strs, ch) == chs

\* delete(mp.channels, ch): the map without the entry under key ch
DeleteKey(chs, strs, ch) == {t \in chs : strs[t].id # ch}

\* msch, ok := mp.channels[ch] under chLock, and the switch on the tag up to
\* the first point where the loop can wait
RxSwitch ==
    LET s == Lookup(rx.ch)
        ok == s # 0
    IN
    /\ rx.pc = "switch"
    /\ IF rx.tag = newStreamTag /\ ok
       THEN /\ RxExit("ErrInvalidState")
            /\ UNCHANGED <<streams, channels, pendingResets>>
       ELSE /\ rx' = IF SwitchTarget(rx.tag, ok) = "read" THEN RxStart
                      ELSE [rx EXCEPT !.pc = SwitchTarget(rx.tag, ok), !.msch = s]
            /\ UNCHANGED shutdownErr
            /\ CASE rx.tag = resetTag /\ ok ->
                      /\ streams' = cancelWrite(cancelRead(streams, s, "ErrStreamReset"),
                                                s, "ErrStreamReset")
                      /\ channels' = Unregister(channels, s)
                      /\ UNCHANGED pendingResets
                 [] rx.tag = closeTag /\ ok ->
                      /\ channels' = DeleteKey(channels, streams, rx.ch)
                      /\ streams' = [streams EXCEPT ![s].dataInClosed = TRUE]
                      /\ UNCHANGED pendingResets
                 [] rx.tag \notin {newStreamTag, resetTag, closeTag, messageTag} /\ ok ->
                      /\ streams' = ResetStreams(streams, s)
                      /\ channels' = Unregister(channels, s)
                      /\ pendingResets' = ResetPending(pendingResets, streams, s)
                 [] OTHER -> UNCHANGED <<streams, channels, pendingResets>>
    /\ UNCHANGED <<session, shutdown, closed, conClosed, writeCh, nstreams,
                   channelsNil, nextID, bufIn, bufOut, tx, callers, held,
                   lastAccept, hist>>

\* putBuffer: <-putBuf takes one token out of the semaphore, whether or not
\* the slice is nil; it waits while the semaphore is empty
putBuffer(n) == n - 1

\* NewStream for an unknown key: putBufferInbound(b), then the new stream is
\* created and registered
RxPutNew ==
    /\ rx.pc = "putNew"
    /\ bufIn > 0
    /\ bufIn' = putBuffer(bufIn)
    /\ LET s == Len(streams) + 1
           strs == Append(streams, newStream(rx.ch))
       IN /\ streams' = strs
          /\ channels' = Register(channels, strs, s)
          /\ rx' = [rx EXCEPT !.pc = "publish", !.msch = s, !.b = NilBuf]
          /\ hist' = [hist EXCEPT !.reads = Append(@, <<>>)]
    /\ UNCHANGED <<session, shutdown, closed, shutdownErr, conClosed, writeCh,
                   nstreams, channelsNil, nextID, bufOut, tx, callers,
                   pendingResets, held, lastAccept>>

\* a publish that gives up on a full accept queue and goes on with the next
\* frame
RxPublishOrSkip ==
    /\ rx.pc = "publish"
    /\ \/ /\ Len(nstreams) < NStreamsCap
          /\ nstreams' = Append(nstreams, rx.msch)
          /\ hist' = [hist EXCEPT !.published = Append(@, rx.msch)]
          /\ rx' = RxStart
       \/ /\ shutdown
          /\ rx' = [RxStart EXCEPT !.pc = "cleanup"]
          /\ UNCHANGED <<nstreams, hist>>
       \/ /\ Len(nstreams) >= NStreamsCap
          /\ rx' = RxStart
          /\ UNCHANGED <<nstreams, hist>>
    /\ UNCHANGED <<session, shutdown, closed, shutdownErr, conClosed, writeCh,
                   channels, channelsNil, nextID, bufIn, bufOut, streams, tx,
                   callers, pendingResets, held, lastAccept>>

\* select { case mp.nstreams <- msch: case <-mp.shutdown: return }
RxPublish ==
    /\ rx.pc = "publish"
    /\ \/ /\ Len(nstreams) < NStreamsCap
          /\ nstreams' = Append(nstreams, rx.msch)
          /\ hist' = [hist EXCEPT !.published = Append(@, rx.msch)]
          /\ rx' = RxStart
       \/ /\ shutdown
          /\ rx' = [RxStart EXCEPT !.pc = "cleanup"]
          /\ UNCHANGED <<nstreams, hist>>
    /\ UNCHANGED <<session, shutdown, closed, shutdownErr, conClosed, writeCh,
                   channels, channelsNil, nextID, bufIn, bufOut, streams, tx,
                   callers, pendingResets, held, lastAccept>>

\* Message for an unknown key: putBufferInbound(b); continue
RxPutDrop ==
    /\ rx.pc = "putDrop"
    /\ bufIn > 0
    /\ bufIn' = putBuffer(bufIn)
    /\ rx' = RxStart
    /\ UNCHANGED <<session, shutdown, closed, shutdownErr, conClosed, writeCh,
                   nstreams, channels, channelsNil, nextID, bufOut, streams, tx,
                   callers, pendingResets, held, lastAccept, hist>>

\* a hand-over that puts b in front of what is queued
DeliverInFront(q, b) == <<b>> \o q

\* a hand-over that skips empty chunks
DeliverNonEmpty(q, b) == IF IsNil(b) THEN q ELSE Append(q, b)

\* the stream's inbound queue after the receive loop has sent b into it
Deliver(q, b) == Append(q, b)

\* Message for a known stream: the select on msch.dataIn <- b, readCancel,
\* the receive timer and shutdown
RxDeliver ==
    LET s == rx.msch IN
    /\ rx.pc = "deliver"
    /\ \/ /\ Len(streams[s].dataIn) < bufMax
          /\ ~streams[s].dataInClosed
          /\ streams' = [streams EXCEPT ![s].dataIn = Deliver(@, rx.b)]
          /\ rx' = RxStart
       \/ /\ streams[s].readCancel # "none"
          /\ rx' = [rx EXCEPT !.pc = "putCancel"]
          /\ UNCHANGED streams
       \/ /\ rx' = [rx EXCEPT !.pc = "putTimeout"]
          /\ UNCHANGED streams
       \/ /\ shutdown
          /\ rx' = [rx EXCEPT !.pc = "putShutdown"]
          /\ UNCHANGED streams
    /\ UNCHANGED <<session, shutdown, closed, shutdownErr, conClosed, writeCh,
                   nstreams, channels, channelsNil, nextID, bufIn, bufOut, tx,
                   callers, pendingResets, held, lastAccept, hist>>

\* case <-msch.readCancel: putBufferInbound(b)
RxPutCancel ==
    /\ rx.pc = "putCancel"
    /\ bufIn > 0
    /\ bufIn' = putBuffer(bufIn)
    /\ rx' = RxStart
    /\ UNCHANGED <<session, shutdown, closed, shutdownErr, conClosed, writeCh,
                   nstreams, channels, channelsNil, nextID, bufOut, streams, tx,
                   callers, pendingResets, held, lastAccept, hist>>

\* a timeout branch that drops the message and leaves the reset to later
RxPutTimeoutNoReset ==
    /\ rx.pc = "putTimeout"
    /\ bufIn > 0
    /\ bufIn' = putBuffer(bufIn)
    /\ hist' = [hist EXCEPT !.timedOut = @ \cup {rx.msch}]
    /\ rx' = RxStart
    /\ UNCHANGED <<session, shutdown, closed, shutdownErr, conClosed, writeCh,
                   nstreams, channels, channelsNil, nextID, bufOut, streams,
                   tx, callers, pendingResets, held, lastAccept>>

\* case <-recvTimeout.C: putBufferInbound(b); msch.Reset(); continue
RxPutTimeout ==
    LET s == rx.msch IN
    /\ rx.pc = "putTimeout"
    /\ bufIn > 0
    /\ bufIn' = putBuffer(bufIn)
    /\ streams' = ResetStreams(streams, s)
    /\ channels' = Unregister(channels, s)
    /\ pendingResets' = ResetPending(pendingResets, streams, s)
    /\ hist' = [hist EXCEPT !.timedOut = @ \cup {s}]
    /\ rx' = RxStart
    /\ UNCHANGED <<session, shutdown, closed, shutdownErr, conClosed, writeCh,
                   nstreams, channelsNil, nextID, bufOut, tx, callers, held,
                   lastAccept>>

\* case <-mp.shutdown: putBufferInbound(b); return
RxPutShutdown ==
    /\ rx.pc = "putShutdown"
    /\ bufIn > 0
    /\ bufIn' = putBuffer(bufIn)
    /\ rx' = [RxStart EXCEPT !.pc = "cleanup"]
    /\ UNCHANGED <<session, shutdown, closed, shutdownErr, conClosed, writeCh,
                   nstreams, channels, channelsNil, nextID, bufOut, streams, tx,
                   callers, pendingResets, held, lastAccept, hist>>

(* ---------------- cleanup ---------------- *)

\* cleanup: mp.closeNoWait()
RxCleanup ==
    /\ rx.pc = "cleanup"
    /\ closeNoWait(hist)
    /\ rx' = [rx EXCEPT !.pc = "take"]
    /\ UNCHANGED <<session, closed, shutdownErr, writeCh, nstreams, channels,
                   channelsNil, nextID, bufIn, bufOut, streams, tx, callers,
                   pendingResets, held, lastAccept>>

\* cleanup: channels := mp.channels; mp.channels = nil, under chLock
RxTake ==
    /\ rx.pc = "take"
    /\ rx' = [rx EXCEPT !.pc = "cancel", !.taken = channels]
    /\ channels' = {}
    /\ channelsNil' = TRUE
    /\ hist' = [hist EXCEPT !.cleaned = channels]
    /\ UNCHANGED <<session, shutdown, closed, shutdownErr, conClosed, writeCh,
                   nstreams, nextID, bufIn, bufOut, streams, tx, callers,
                   pendingResets, held, lastAccept>>

\* cleanup: one turn of the loop over the streams taken from the map
RxCancel ==
    /\ rx.pc = "cancel"
    /\ \E s \in rx.taken :
          /\ streams' = cancelWrite(cancelRead(streams, s, "ErrStreamReset"),
                                    s, "ErrStreamReset")
          /\ rx' = [rx EXCEPT !.taken = @ \ {s}]
    /\ UNCHANGED <<session, shutdown, closed, shutdownErr, conClosed, writeCh,
                   nstreams, channels, channelsNil, nextID, bufIn, bufOut, tx,
                   callers, pendingResets, held, lastAccept, hist>>

\* a cleanup that fires the closed event without waiting for the loop over
\* the streams to end
RxFinishEarly ==
    /\ rx.pc = "cancel"
    /\ shutdownErr' = IF shutdownErr = "nil" THEN "ErrShutdown" ELSE shutdownErr
    /\ closed' = TRUE
    /\ hist' = [hist EXCEPT !.closes = @ + 1]
    /\ rx' = [rx EXCEPT !.pc = "done"]
    /\ UNCHANGED <<session, shutdown, conClosed, writeCh, nstreams, channels,
                   channelsNil, nextID, bufIn, bufOut, streams, tx, callers,
                   pendingResets, held, lastAccept>>

\* cleanup: the default shutdown error, then close(mp.closed)
RxFinish ==
    /\ rx.pc = "cancel"
    /\ rx.taken = {}
    /\ shutdownErr' = IF shutdownErr = "nil" THEN "ErrShutdown" ELSE shutdownErr
    /\ closed' = TRUE
    /\ hist' = [hist EXCEPT !.closes = @ + 1]
    /\ rx' = [rx EXCEPT !.pc = "done"]
    /\ UNCHANGED <<session, shutdown, conClosed, writeCh, nstreams, channels,
                   channelsNil, nextID, bufIn, bufOut, streams, tx, callers,
                   pendingResets, held, lastAccept>>

(* ---------------- the specification ---------------- *)

RxNext ==
    \/ RxReadFrame \/ RxReadErr \/ RxGetBufferInbound \/ RxSwitch
    \/ RxPutNew \/ RxPublish \/ RxPutDrop \/ RxDeliver
    \/ RxPutCancel \/ RxPutTimeout \/ RxPutShutdown
    \/ RxCleanup \/ RxTake \/ RxCancel \/ RxFinish

\* the receive loop when the peer sends nothing
RxSilentNext == RxReadErr \/ RxCleanup \/ RxTake \/ RxCancel \/ RxFinish

TxNext == TxSelect \/ TxWrite

\* Multiplex.Close
CloseNext == \E p \in Callers : CallClose(p) \/ CloseWait(p)

\* the calls that go through sendMsg
SendNext ==
    \E p \in Callers :
       \/ CallNewNamedStream(p) \/ CallSendResetMsg(p)
       \/ SendAcquire(p) \/ SendEnqueue(p)
       \/ \E s \in held : CallWrite(p, s)

ReadNext == \E s \in held : StreamRead(s)

ResetNext == \E s \in held : UserReset(s)

Next == RxNext \/ TxNext \/ Accept \/ CloseNext \/ SendNext \/ ReadNext \/ ResetNext

\* the whole session
Spec == Init /\ [][Next]_vars

\* the receive side: the peer sends frames, the user accepts, reads and
\* resets streams and calls Close once, and opens no stream of its own
NextRx ==
    \/ RxNext \/ TxSelect \/ Accept \/ ReadNext \/ ResetNext
    \/ CallClose(1) \/ CloseWait(1)

SpecRx == Init /\ [][NextRx]_vars

\* the send side: the user opens streams, writes, resets and closes, the
\* send loop writes, and the peer sends nothing
NextTx == RxSilentNext \/ TxNext \/ CloseNext \/ SendNext \/ ResetNext

SpecTx == Init /\ [][NextTx]_vars

\* the receive loop when no user cancels a stream's reads: the readCancel
\* case of the dispatch is never ready
RxUncancelledNext ==
    \/ RxReadFrame \/ RxReadErr \/ RxGetBufferInbound \/ RxSwitch
    \/ RxPutNew \/ RxPublish \/ RxPutDrop \/ RxDeliver
    \/ RxPutTimeout \/ RxPutShutdown
    \/ RxCleanup \/ RxTake \/ RxCancel \/ RxFinish

\* both directions at once: the peer sends frames while the user opens
\* streams, writes and sends resets; nobody accepts, reads, resets a stream
\* by hand or calls Close
NextIO == RxUncancelledNext \/ TxNext \/ SendNext

SpecIO == Init /\ [][NextIO]_vars

\* the streams waiting in a full accept queue
Backlog == NStreamsCap

\* A session whose accept queue is full.  It is the state the session is in
\* after the peer has opened the streams 0 .. Backlog - 1, each with a
\* NewStream frame that carries a name (the slot of the name is taken and
\* given back), nobody has called Accept, and the peer has closed each of
\* them again with a Close frame: the streams are all queued in nstreams, and
\* all are out of the map with their data channels closed.  The frames and
\* buffers are counted from this state on.
InitBacklog ==
    /\ bufMax \in 1..Min(MaxBuffers, MaxGrant)
    /\ reservedMemory = bufMax * 2 * MaxMessageSize
    /\ shutdown = FALSE
    /\ closed = FALSE
    /\ shutdownErr = "nil"
    /\ conClosed = FALSE
    /\ writeCh = <<>>
    /\ nstreams = [i \in 1..Backlog |-> i]
    /\ channels = {}
    /\ channelsNil = FALSE
    /\ nextID = 0
    /\ bufIn = 0
    /\ bufOut = 0
    /\ streams = [i \in 1..Backlog |->
                    [newStream(StreamID(i - 1, FALSE))
                       EXCEPT !.dataInClosed = TRUE]]
    /\ rx = RxStart
    /\ tx = TxStart
    /\ callers = [p \in Callers |-> Idle]
    /\ pendingResets = {}
    /\ held = {}
    /\ lastAccept = [kind |-> "none", s |-> 0, err |-> "nil", closed |-> FALSE]
    /\ hist = [frames |-> 0, peerIds |-> Backlog, ops |-> 0, enq |-> 0,
               written |-> <<>>, ids |-> <<>>, releases |-> <<>>,
               conCloses |-> 0, shutdowns |-> 0, closes |-> 0, cleaned |-> {},
               reads |-> [i \in 1..Backlog |-> <<>>],
               published |-> [i \in 1..Backlog |-> i],
               accepted |-> <<>>, timedOut |-> {}]

\* Accept, for a user that takes at most MaxOps streams
AcceptFew == Len(hist.accepted) < MaxOps /\ Accept

\* the receive side with a full accept queue: the peer sends frames, the
\* user accepts a few streams and calls Close once
NextBacklog == RxUncancelledNext \/ AcceptFew \/ CallClose(1) \/ CloseWait(1)

SpecBacklog == InitBacklog /\ [][NextBacklog]_vars

(* ======================= the claims ======================= *)

StrictlyIncreasing(q) == \A i, j \in DOMAIN q : i < j => q[i] < q[j]

\* C1: frames enqueued on writeCh are written to the transport in enqueue
\* order: the enqueue numbers of the frames written so far are strictly
\* increasing (no frame is written twice, none overtakes an earlier one), each
\* is the number of a frame that was enqueued, and what is still queued or
\* being written comes after everything written.
C1_SendOrder ==
    LET pending == (IF tx.pc = "write" THEN <<tx.data.n>> ELSE <<>>)
                   \o [i \in DOMAIN writeCh |-> writeCh[i].n]
    IN /\ StrictlyIncreasing(hist.written \o pending)
       /\ \A i \in DOMAIN hist.written : hist.written[i] \in 1..hist.enq

\* two frames of two concurrent sendMsg callers were queued together and both
\* have been written
C1_Witness ==
    /\ Len(hist.written) = 2
    /\ \A p \in Callers : callers[p].pc = "done" /\ callers[p].res = "ok"
    /\ bufMax >= 2

\* C5: the held outbound slots are exactly the buffers that sendMsg callers
\* hold before the enqueue, that are queued in writeCh, or that the send loop
\* is writing; they never exceed the N granted slots.
C5_OutboundSlots ==
    /\ bufOut = Cardinality({p \in Callers : callers[p].pc = "enqueue"})
                + Len(writeCh)
                + (IF tx.pc = "write" THEN 1 ELSE 0)
    /\ bufOut <= bufMax

\* a sendMsg that held a slot has given it back with an error, a frame has
\* been written, and every slot is free again
C5_Witness ==
    /\ bufOut = 0
    /\ Len(hist.written) = 1
    /\ \E p \in Callers : callers[p].pc = "done" /\ callers[p].res = "ErrShutdown"
    /\ hist.enq = 1

\* C6: after NewNamedStream has returned an error, the stream it registered
\* is not in the session map.
C6_FailedNewStreamRemoved ==
    \A p \in Callers :
       (callers[p].pc = "done" /\ callers[p].op = "newstream"
          /\ callers[p].res # "ok" /\ callers[p].s # 0)
       => callers[p].s \notin channels

\* C7: the ids handed out by nextChanID are 0, 1, 2, ... in the order of the
\* calls, whether or not the calls' sends succeed.
C7_MonotoneIds == \A i \in DOMAIN hist.ids : hist.ids[i] = i - 1

\* two calls have got ids, one of them failed to send its frame
C7_Witness ==
    /\ Len(hist.ids) = 2
    /\ \E p \in Callers : callers[p].pc = "done" /\ callers[p].op = "newstream"
                          /\ callers[p].res = "ctxErr"
    /\ \E p \in Callers : callers[p].pc = "done" /\ callers[p].op = "newstream"
                          /\ callers[p].res = "ok"

\* what C10 says of one state: nothing is done twice, the flags tell what
\* was done, and the memory released is what the constructor reserved
TerminatedOnce ==
    /\ hist.shutdowns <= 1 /\ hist.conCloses <= 1 /\ hist.closes <= 1
    /\ Len(hist.releases) <= 1
    /\ shutdown <=> hist.shutdowns = 1
    /\ shutdown <=> hist.conCloses = 1
    /\ shutdown <=> hist.releases = <<bufMax * 2 * MaxMessageSize>>
    /\ closed <=> hist.closes = 1
    /\ closed => shutdown

\* C10: termination is idempotent: in every step the shutdown signal, the
\* transport close, the memory release and the closed event have each
\* happened at most once (exactly once when the flag is up), the released
\* amount is the reserved amount, and shutdown and closed, once raised, stay
\* raised.
C10_TerminationOnce ==
    [][ /\ TerminatedOnce'
        /\ shutdown => shutdown'
        /\ closed => closed' ]_vars

\* two concurrent Close calls have both returned after the closed event
C10_Witness ==
    /\ closed
    /\ \A p \in Callers : callers[p].pc = "done" /\ callers[p].op = "close"

(* ---- the receive side ---- *)

Seqs(q) == [i \in DOMAIN q |-> q[i].seq]

\* C2: the Message frames of one stream reach its inbound queue in wire
\* order, each once: for every stream, the frame numbers the user has read
\* followed by the frame numbers still queued in dataIn are strictly
\* increasing.
C2_RecvOrder ==
    \A s \in DOMAIN streams :
       StrictlyIncreasing(hist.reads[s] \o Seqs(streams[s].dataIn))

\* a stream has had one message read and a later one queued behind it
C2_Witness ==
    \E s \in DOMAIN streams :
       Len(hist.reads[s]) >= 1 /\ Len(streams[s].dataIn) >= 1

\* the receive loop waits for an inbound slot for a Message frame of a live
\* stream whose inbound queue holds N non-empty messages, none of which the
\* user has read, and the session is not shut down
Stalled(s) ==
    /\ rx.pc = "getBuf"
    /\ rx.tag = messageTag
    /\ s \in channels
    /\ streams[s].id = rx.ch
    /\ Len(streams[s].dataIn) = bufMax
    /\ \A i \in DOMAIN streams[s].dataIn : ~IsNil(streams[s].dataIn[i])
    /\ hist.reads[s] = <<>>
    /\ ~shutdown

\* C3: a consumer that never reads does not block the receive loop: with N
\* non-empty messages queued on a stream and the next one arriving, the
\* receive loop can go on by itself (its timeout branch), without a read by
\* the user and without shutdown.
C3_SlowConsumerProgress ==
    \A s \in DOMAIN streams : Stalled(s) => ENABLED RxNext

NonNil(q) == Cardinality({i \in DOMAIN q : ~IsNil(q[i])})

RECURSIVE QueuedIn(_)
\* the non-nil buffers queued in the first k streams
QueuedIn(k) == IF k = 0 THEN 0 ELSE NonNil(streams[k].dataIn) + QueuedIn(k - 1)

\* the receive loop is in its for loop (it has not returned)
RxRunning ==
    rx.pc \in {"read", "getBuf", "switch", "putNew", "publish", "putDrop",
               "deliver", "putCancel", "putTimeout", "putShutdown"}

\* the receive loop holds a payload buffer it has read and not yet released
\* or handed over
RxHolds ==
    IF /\ rx.pc \in {"switch", "putNew", "putDrop", "deliver", "putCancel",
                     "putTimeout", "putShutdown"}
       /\ ~IsNil(rx.b)
    THEN 1 ELSE 0

\* C4: while the receive loop runs, the held inbound slots are exactly the
\* payload buffers still outstanding: the one in the receive loop's hands
\* and those queued in streams.
C4_InboundSlots == RxRunning => bufIn = RxHolds + QueuedIn(Len(streams))

Cancelled(s) == streams[s].readCancel # "none" /\ streams[s].writeCancel # "none"

\* C8: after a NewStream frame for a registered key the receive loop has
\* left its loop with cause ErrInvalidState; once the closed event has fired
\* the transport is closed, the map is gone, every stream taken from it is
\* cancelled, and an Accept called after the closed event returns the
\* shutdown cause.
C8_DuplicateNewStream ==
    shutdownErr = "ErrInvalidState" =>
       /\ ~RxRunning
       /\ closed => /\ shutdown /\ conClosed /\ channelsNil
                    /\ \A s \in hist.cleaned : Cancelled(s)
       /\ lastAccept.closed =>
             lastAccept.kind = "error" /\ lastAccept.err = "ErrInvalidState"

\* C9: a frame of declared length MaxMessageSize goes on to take a slot; a
\* frame of declared length MaxMessageSize + 1 makes the receive loop leave
\* with the size error, with no slot taken and no stream, map or accept queue
\* touched; when the closed event has fired after it, shutdown is raised and
\* every stream taken from the map is cancelled.
C9_LengthBoundary ==
    [][ /\ (rx.pc = "read" /\ rx'.l = MaxMessageSize)
              => (rx'.pc = "getBuf" /\ shutdownErr' = shutdownErr)
        /\ (rx.pc = "read" /\ rx'.l = MaxMessageSize + 1)
              => /\ rx'.pc = "cleanup"
                 /\ shutdownErr' = "message size too large"
                 /\ UNCHANGED <<bufIn, streams, channels, nstreams>>
        /\ (rx'.l = MaxMessageSize + 1 /\ closed')
              => /\ shutdown'
                 /\ shutdownErr' = "message size too large"
                 /\ \A s \in hist'.cleaned : Cancelled(s)' ]_vars

\* the session has closed on an oversize frame and cancelled a live stream
C9_Witness ==
    /\ closed
    /\ rx.l = MaxMessageSize + 1
    /\ hist.cleaned # {}

(* ---- Close, Accept and the frames of one stream ---- *)

\* C11: when a Close call has returned, the closed event has fired; and when
\* the closed event has fired, cleanup is over: the stream map is nil and
\* empty, and every stream that cleanup took from the map has its reads and
\* its writes cancelled with ErrStreamReset.
C11_CloseAfterCleanup ==
    /\ \A p \in Callers :
          (callers[p].op = "close" /\ callers[p].pc = "done") => closed
    /\ closed =>
          /\ channelsNil /\ channels = {}
          /\ \A s \in hist.cleaned :
                /\ streams[s].readCancel = "ErrStreamReset"
                /\ streams[s].writeCancel = "ErrStreamReset"

\* Close has returned after cleanup cancelled a stream it took from the map,
\* with a stream still queued for Accept and another in the user's hands
C11_Witness ==
    /\ callers[1].op = "close" /\ callers[1].pc = "done"
    /\ Cardinality(hist.cleaned) = 1
    /\ nstreams # <<>>
    /\ held # {}

NoDuplicates(q) == \A i, j \in DOMAIN q : i # j => q[i] # q[j]

\* C12: the streams Accept has returned, followed by the streams still
\* queued, are the streams the receive loop has published, in publish order
\* and without repetition; and an Accept called after the closed event has
\* fired returns the session's shutdown error.
C12_AcceptOrder ==
    /\ hist.accepted \o nstreams = hist.published
    /\ NoDuplicates(hist.published)
    /\ lastAccept.closed =>
          lastAccept.kind = "error" /\ lastAccept.err = shutdownErr

\* the receive loop can hand its chunk to the stream and go back to reading
HandOver == RxDeliver /\ rx'.pc = "read"

\* C13: a Message frame of length 0 is not an error.  Reading it takes no
\* slot, ends nothing and leads to the dispatch; for a registered stream the
\* dispatch leads to the hand-over; while the stream's queue has room the
\* hand-over can happen, and when it happens the zero-length chunk is added
\* at the end of the stream's queue, the loop is back at reading the next
\* frame and the session is not shut down by it.
C13_ZeroLengthMessage ==
    /\ []((rx.pc = "deliver" /\ IsNil(rx.b)
             /\ Len(streams[rx.msch].dataIn) < bufMax) => ENABLED HandOver)
    /\ [][ /\ (rx.pc = "read" /\ hist'.frames # hist.frames
                 /\ rx'.tag = messageTag /\ rx'.l = 0)
              => /\ rx'.pc = "switch" /\ IsNil(rx'.b)
                 /\ UNCHANGED <<bufIn, shutdown, shutdownErr>>
           /\ (rx.pc = "switch" /\ rx.tag = messageTag /\ IsNil(rx.b)
                 /\ Lookup(rx.ch) # 0 /\ rx' # rx)
              => /\ rx'.pc = "deliver" /\ rx'.msch = Lookup(rx.ch)
                 /\ UNCHANGED <<bufIn, shutdown, shutdownErr, streams>>
           /\ (rx.pc = "deliver" /\ IsNil(rx.b) /\ rx'.pc = "read")
              => /\ streams'[rx.msch].dataIn
                       = Append(streams[rx.msch].dataIn, rx.b)
                 /\ UNCHANGED <<bufIn, shutdown, shutdownErr>> ]_vars

\* a zero-length chunk is queued on a stream behind another chunk, and the
\* receive loop is reading the next frame of a session that is not shut down
C13_Witness ==
    /\ rx.pc = "read" /\ ~shutdown /\ shutdownErr = "nil"
    /\ \E s \in DOMAIN streams :
          /\ Len(streams[s].dataIn) = 2
          /\ IsNil(streams[s].dataIn[2])

(* ---- shutdown ---- *)

\* C14: shutdown wins over slot availability: once the shutdown signal is
\* raised no step acquires an inbound or an outbound slot, and no frame is
\* enqueued on the outbound queue.
C14_ShutdownWins ==
    [][ shutdown => /\ bufOut' <= bufOut
                    /\ bufIn' <= bufIn
                    /\ hist'.enq = hist.enq ]_vars

(* ---- the frames of one stream ---- *)

\* the receive loop is about to handle a Close frame for the registered
\* stream s
ClosingFrame(s) ==
    rx.pc = "switch" /\ rx.tag = closeTag /\ s # 0 /\ s = Lookup(rx.ch)

C16_TimeoutReset ==
    /\ [](\A s \in hist.timedOut :
             /\ streams[s].resetDone
             /\ s \notin channels
             /\ ~(rx.pc = "deliver" /\ rx.msch = s))
    /\ [][ /\ (rx.pc = "putTimeout" /\ rx' # rx)
              => /\ rx'.pc = "read"
                 /\ hist'.frames = hist.frames
                 /\ rx.msch \in hist'.timedOut
           /\ \A s \in hist.timedOut :
                 Len(streams'[s].dataIn) <= Len(streams[s].dataIn) ]_vars

\* a message of a stream was dropped by the timeout, and the receive loop is
\* dropping a later Message frame for the same key as a frame for an unknown
\* stream
C16_Witness ==
    /\ rx.pc = "putDrop" /\ rx.tag = messageTag
    /\ \E s \in hist.timedOut : streams[s].id = rx.ch

(* ---- failures of the send side ---- *)

\* a sendMsg call of NewNamedStream or of a stream write
StreamSend(c) == c.op \in {"newstream", "write"} /\ c.pc \in {"acquire", "enqueue"}

\* C17: a transport write that fails raises shutdown and closes the
\* transport, gives back the slot of the buffer it could not write and ends
\* the send loop, which writes nothing afterwards; once the send loop has
\* ended the closed event has fired or the receive loop can still move on
\* towards firing it; and a send of NewNamedStream or of a stream write that
\* is given up on timeout or cancel leaves the shutdown signal as it is.
C17_WriteFailure ==
    /\ [](tx.pc = "done" => /\ shutdown /\ conClosed
                             /\ (closed \/ ENABLED RxNext))
    /\ [][ /\ (tx.pc = "write" /\ ~shutdown /\ tx'.pc = "done")
              => /\ shutdown' /\ conClosed'
                 /\ bufOut' = bufOut - 1
                 /\ hist'.written = hist.written
           /\ tx.pc = "done"
              => tx'.pc = "done" /\ hist'.written = hist.written
           /\ \A p \in Callers :
                 (/\ StreamSend(callers[p])
                  /\ callers'[p].pc = "done"
                  /\ callers'[p].res \in {"errTimeout", "ctxErr", "ErrStreamClosed"})
                 => shutdown' = shutdown ]_vars

\* a sendResetMsg call inside sendMsg
ResetSend(c) == c.op = "reset" /\ c.pc \in {"acquire", "enqueue"}

\* C18: a sendResetMsg call that waits for a slot or for queue space can
\* always give up (its timeout).  When its send fails with the session not
\* shut down, a hard reset calls Close (shutdown is raised, the transport
\* closed, and the caller waits for the closed event) and a reset that is
\* not hard returns with the session as it was; when the send fails with the
\* session shut down the call returns and nothing else is done.  A call that
\* waits in Close for the closed event is not left waiting: the closed event
\* has fired or the receive loop can still move on towards firing it.
C18_ResetSend ==
    /\ [](\A p \in Callers :
             /\ ResetSend(callers[p])
                => ENABLED (SendAcquire(p) \/ SendEnqueue(p))
             /\ callers[p].pc = "closeWait"
                => /\ shutdown /\ conClosed
                   /\ (closed \/ ENABLED RxNext))
    /\ [][ \A p \in Callers :
             (ResetSend(callers[p]) /\ callers'[p] # callers[p])
             => \/ callers[p].pc = "acquire" /\ callers'[p].pc = "enqueue"
                \/ /\ callers'[p].pc = "done" /\ callers'[p].res = "ok"
                   /\ shutdown' = shutdown
                \/ /\ callers'[p].pc = "done" /\ callers'[p].res # "ok"
                   /\ shutdown \/ ~callers[p].hard
                   /\ shutdown' = shutdown
                \/ /\ callers'[p].pc = "closeWait"
                   /\ callers[p].hard /\ ~shutdown
                   /\ shutdown' /\ conClosed' ]_vars

(* ---- Close always returns ---- *)

\* C19: no wait of the receive loop outlasts shutdown: once the shutdown
\* signal is raised and until the closed event has fired, the receive loop
\* can take a step (towards cleanup), wherever it stands; and a Close call
\* that waits for the closed event can return once it has fired.  (Only the
\* receive loop puts tokens into bufIn, so a receive loop that cannot take a
\* step under shutdown never can again.)
C19_CloseReturns ==
    /\ (shutdown /\ ~closed) => ENABLED RxNext
    /\ \A p \in Callers :
          (callers[p].pc = "closeWait" /\ closed) => ENABLED CloseWait(p)

(* ---- the accept queue ---- *)

Range(q) == {q[i] : i \in DOMAIN q}

\* the receive loop has registered stream s and is about to publish it
Publishing(s) == rx.pc = "publish" /\ rx.msch = s

\* C20: a stream the receive loop has registered for the peer is published
\* before another frame is read, unless the loop leaves on shutdown: the
\* loop leaves the publish only by putting the stream at the end of the
\* accept queue or, with shutdown raised, by going to cleanup, and reads no
\* frame in between; a stream it left unpublished is never handed out by
\* Accept and is cancelled when the closed event has fired.  While the
\* accept queue holds NStreamsCap streams and shutdown is not raised, the
\* receive loop cannot take any step (there is no timeout); as soon as the
\* queue has room or shutdown is raised, it can.
C20_PublishBeforeNextFrame ==
    /\ [](\A s \in DOMAIN streams :
             (~streams[s].id.initiator /\ s \notin Range(hist.published))
             => \/ Publishing(s) /\ s \in channels
                \/ /\ ~Publishing(s) /\ shutdown
                   /\ s \notin held /\ s \notin Range(nstreams)
                   /\ closed => Cancelled(s))
    /\ []((rx.pc = "publish" /\ Len(nstreams) = NStreamsCap /\ ~shutdown)
             => ~ENABLED RxNext)
    /\ []((rx.pc = "publish" /\ (Len(nstreams) < NStreamsCap \/ shutdown))
             => ENABLED RxPublish)
    /\ [][ (rx.pc = "publish" /\ rx' # rx)
             => /\ hist'.frames = hist.frames
                /\ \/ /\ nstreams' = Append(nstreams, rx.msch)
                      /\ rx'.pc = "read"
                   \/ /\ shutdown /\ rx'.pc = "cleanup"
                      /\ nstreams' = nstreams ]_vars

\* the receive loop has registered a stream and waits to publish it behind
\* NStreamsCap unaccepted streams, with the session not shut down
C20_Witness ==
    /\ rx.pc = "publish"
    /\ Len(nstreams) = NStreamsCap
    /\ rx.msch \in channels
    /\ ~shutdown

====
